---- MODULE Spec2Model ----
(***************************************************************************)
(* Model of Ghost's StorageBase: the naming layer shared by the storage    *)
(* adapters.  A JavaScript string is modelled as the sequence of its      *)
(* UTF-16 code units (String.prototype.length is Len), a Uint8Array as a  *)
(* sequence of bytes.  The path primitives are the POSIX ones of Node.    *)
(* The hardened naming path is that of the class with the suffix marker   *)
(* (MAX_FILENAME_BYTES = 255): generateFilename, getUniquePathname, ...;  *)
(* a later version names the same methods generateFileName,               *)
(* getUniqueSecureFilePath and sanitizeFileName.                          *)
(***************************************************************************)
EXTENDS Integers, Sequences, FiniteSets, TLC

\* ------------------------------------------------------------------ bounds
\* how many times one call is repeated with the same arguments
MaxCalls == 2
\* the longest stems and file names are this many bytes longer than
\* MAX_FILENAME_BYTES
MaxExcess == 6
\* the long stems and file names start this many bytes below
\* MAX_FILENAME_BYTES
NearLimit == 30
\* the short stems and file names have at most this many characters (one
\* more where only the sanitizer or the extension is concerned)
MaxShort == 2
\* longest trailing dot-group of a file name, in characters
MaxGroup == 11
\* the largest counter generateUnique is followed to
MaxCounter == 2

\* --------------------------------------------------------- program constants
MAX_FILENAME_BYTES == 255

\* '_o'
ORIGINAL_SUFFIX == <<95, 111>>

\* the separator of `${stem}-${hash}...` and the sanitizer's replacement
DASH == 45

CHAR_DOT == 46

CHAR_FORWARD_SLASH == 47

CHAR_AT == 64

\* U+FFFD, what TextEncoder/TextDecoder put in place of malformed input
REPLACEMENT_CHARACTER == 65533

\* U+FEFF, the byte order mark a TextDecoder drops at the start of its input
BYTE_ORDER_MARK == 65279

\* an argument that the caller left out (no JavaScript string contains -1)
undefined == << -1 >>

\* ------------------------------------------------------------------ strings
Rep(u, n) == [i \in 1..(n * Len(u)) |-> u[((i - 1) % Len(u)) + 1]]

endsWith(s, t) ==
    /\ Len(t) <= Len(s)
    /\ SubSeq(s, Len(s) - Len(t) + 1, Len(s)) = t

IsHighSurrogate(c) == c >= 55296 /\ c <= 56319

IsLowSurrogate(c) == c >= 56320 /\ c <= 57343

\* the UTF-8 bytes of one code point
Utf8(cp) ==
    IF cp < 128 THEN <<cp>>
    ELSE IF cp < 2048 THEN <<192 + (cp \div 64), 128 + (cp % 64)>>
    ELSE IF cp < 65536
         THEN <<224 + (cp \div 4096), 128 + ((cp \div 64) % 64), 128 + (cp % 64)>>
    ELSE <<240 + (cp \div 262144), 128 + ((cp \div 4096) % 64),
           128 + ((cp \div 64) % 64), 128 + (cp % 64)>>

\* the UTF-16 code units of one code point
Utf16(cp) ==
    IF cp < 65536 THEN <<cp>>
    ELSE <<55296 + ((cp - 65536) \div 1024), 56320 + ((cp - 65536) % 1024)>>

\* the concatenation of pieces[lo], ..., pieces[hi]
RECURSIVE Concat(_, _, _)
Concat(pieces, lo, hi) ==
    IF lo > hi THEN <<>>
    ELSE IF lo = hi THEN pieces[lo]
    ELSE LET mid == (lo + hi) \div 2
         IN  Concat(pieces, lo, mid) \o Concat(pieces, mid + 1, hi)

Flatten(pieces) == Concat(pieces, 1, Len(pieces))

\* The bytes TextEncoder writes for the code unit at s[i]: a surrogate pair is
\* one code point, written at its high surrogate; a lone surrogate is written
\* as U+FFFD.
EncodeAt(s, i) ==
    IF IsHighSurrogate(s[i])
    THEN IF i < Len(s) /\ IsLowSurrogate(s[i + 1])
         THEN Utf8(65536 + (s[i] - 55296) * 1024 + (s[i + 1] - 56320))
         ELSE Utf8(REPLACEMENT_CHARACTER)
    ELSE IF IsLowSurrogate(s[i])
    THEN IF i > 1 /\ IsHighSurrogate(s[i - 1])
         THEN <<>>
         ELSE Utf8(REPLACEMENT_CHARACTER)
    ELSE Utf8(s[i])

\* new TextEncoder().encode(s)
encode(s) == Flatten([i \in 1..Len(s) |-> EncodeAt(s, i)])

\* ---- new TextDecoder().decode(b): the WHATWG UTF-8 decoder, fatal = false.
\* A byte outside 80..BF is never accepted as a continuation byte, so the
\* decoder always reads it as the first byte of a character.
IsContinuation(x) == x >= 128 /\ x <= 191

\* bytes needed after the lead byte x (0: ASCII, -1: not a lead byte)
BytesNeeded(x) ==
    IF x <= 127 THEN 0
    ELSE IF x >= 194 /\ x <= 223 THEN 1
    ELSE IF x >= 224 /\ x <= 239 THEN 2
    ELSE IF x >= 240 /\ x <= 244 THEN 3
    ELSE -1

\* the range the first continuation byte after lead x must be in
LowerBoundary(x) == IF x = 224 THEN 160 ELSE IF x = 240 THEN 144 ELSE 128

UpperBoundary(x) == IF x = 237 THEN 159 ELSE IF x = 244 THEN 143 ELSE 191

\* whether b[p + k] is accepted as the k-th continuation byte of the
\* character that starts at p
Accepted(b, p, k) ==
    /\ p + k <= Len(b)
    /\ IF k = 1
       THEN b[p + 1] >= LowerBoundary(b[p]) /\ b[p + 1] <= UpperBoundary(b[p])
       ELSE IsContinuation(b[p + k])

\* how many continuation bytes the decoder consumes for the character at p
Consumed(b, p) ==
    LET need == BytesNeeded(b[p])
    IN  IF need <= 0 THEN 0
        ELSE IF ~Accepted(b, p, 1) THEN 0
        ELSE IF need = 1 \/ ~Accepted(b, p, 2) THEN 1
        ELSE IF need = 2 \/ ~Accepted(b, p, 3) THEN 2
        ELSE 3

\* whether the decoder reads b[i] as the first byte of a character
StartsCharacter(b, i) ==
    \/ ~IsContinuation(b[i])
    \/ \A q \in 1..3 :
          (i - q >= 1 /\ \A r \in 1..(q - 1) : IsContinuation(b[i - r])
                      /\ ~IsContinuation(b[i - q]))
             => Consumed(b, i - q) < q

\* what the decoder emits for the bytes starting at i
DecodeAt(b, i) ==
    IF ~StartsCharacter(b, i) THEN <<>>
    ELSE LET need == BytesNeeded(b[i])
             got == Consumed(b, i)
         IN  IF need = 0 THEN <<b[i]>>
             ELSE IF need < 0 \/ got < need THEN <<REPLACEMENT_CHARACTER>>
             ELSE IF need = 1 THEN Utf16((b[i] % 32) * 64 + (b[i + 1] % 64))
             ELSE IF need = 2
                  THEN Utf16((b[i] % 16) * 4096 + (b[i + 1] % 64) * 64 + (b[i + 2] % 64))
             ELSE Utf16((b[i] % 8) * 262144 + (b[i + 1] % 64) * 4096
                        + (b[i + 2] % 64) * 64 + (b[i + 3] % 64))

\* ignoreBOM = false: a leading EF BB BF is dropped
decode(b) ==
    LET body == IF Len(b) >= 3 /\ SubSeq(b, 1, 3) = Utf8(BYTE_ORDER_MARK)
                THEN SubSeq(b, 4, Len(b))
                ELSE b
    IN  Flatten([i \in 1..Len(body) |-> DecodeAt(body, i)])

\* TypedArray.prototype.slice(0, -n): the end index -n counts from the end of
\* the array, but -0 is 0, the start
sliceOff(bytes, n) == IF n = 0 THEN <<>> ELSE SubSeq(bytes, 1, Len(bytes) - n)

\* a parameter's default value: used when the argument is undefined
default(arg, value) == IF arg = undefined THEN value ELSE arg

\* --------------------------------------------------------- generateFilename
\* a generateFilename that cuts the encoded name, not the encoded stem
generateFilenameCuttingName(stem, hash, suffix, ext) ==
    LET filename == stem \o <<DASH>> \o hash \o default(suffix, <<>>) \o default(ext, <<>>)
        fileNameBytes == encode(filename)
    IN  IF Len(fileNameBytes) > MAX_FILENAME_BYTES
        THEN decode(SubSeq(fileNameBytes, 1, MAX_FILENAME_BYTES))
        ELSE filename

\* a generateFilename that never truncates
generateFilenameNoTruncation(stem, hash, suffix, ext) ==
    stem \o <<DASH>> \o hash \o default(suffix, <<>>) \o default(ext, <<>>)

\* a generateFilename that also truncates a name of exactly the maximum
generateFilenameOffByOne(stem, hash, suffix, ext) ==
    LET tail == <<DASH>> \o hash \o default(suffix, <<>>) \o default(ext, <<>>)
        fileNameBytes == encode(stem \o tail)
    IN  IF Len(fileNameBytes) >= MAX_FILENAME_BYTES
        THEN decode(sliceOff(encode(stem), Len(fileNameBytes) - MAX_FILENAME_BYTES)) \o tail
        ELSE stem \o tail

\* a generateFilename that removes one byte more than the excess
generateFilenameCuttingOneMore(stem, hash, suffix, ext) ==
    LET tail == <<DASH>> \o hash \o default(suffix, <<>>) \o default(ext, <<>>)
        fileNameBytes == encode(stem \o tail)
    IN  IF Len(fileNameBytes) > MAX_FILENAME_BYTES
        THEN decode(sliceOff(encode(stem), Len(fileNameBytes) - MAX_FILENAME_BYTES + 1)) \o tail
        ELSE stem \o tail

generateFilename(stem, hash, suffix, ext) ==
    LET sfx == default(suffix, <<>>)
        e == default(ext, <<>>)
        filename == stem \o <<DASH>> \o hash \o sfx \o e
        fileNameBytes == encode(filename)
    IN  IF Len(fileNameBytes) > MAX_FILENAME_BYTES
        THEN LET stemBytes == encode(stem)
                 bytesToRemove == Len(fileNameBytes) - MAX_FILENAME_BYTES
                 newStemBytes == sliceOff(stemBytes, bytesToRemove)
             IN  decode(newStemBytes) \o <<DASH>> \o hash \o sfx \o e
        ELSE filename

\* ------------------------------------------------------- Node's path (POSIX)
\* the last index i in lo..hi at which (p[i] = c) = eq, or 0
RECURSIVE LastIndex(_, _, _, _, _)
LastIndex(p, c, eq, lo, hi) ==
    IF lo > hi THEN 0
    ELSE IF lo = hi THEN (IF (p[lo] = c) = eq THEN lo ELSE 0)
    ELSE LET mid == (lo + hi) \div 2
             right == LastIndex(p, c, eq, mid + 1, hi)
         IN  IF right # 0 THEN right ELSE LastIndex(p, c, eq, lo, mid)

\* index of the last character of the last path component (0: there is none)
ComponentEnd(p) == LastIndex(p, CHAR_FORWARD_SLASH, FALSE, 1, Len(p))

\* index of the first character of the last path component
ComponentStart(p) ==
    1 + LastIndex(p, CHAR_FORWARD_SLASH, TRUE, 1, ComponentEnd(p))

\* path.basename(p): the last component, trailing separators dropped
LastComponent(p) == SubSeq(p, ComponentStart(p), ComponentEnd(p))

\* path.basename(p, suffix)
basename(p, suffix) ==
    LET comp == LastComponent(p)
    IN  IF suffix = undefined \/ Len(suffix) = 0 \/ Len(suffix) > Len(p)
        THEN comp
        ELSE IF suffix = p THEN <<>>
        ELSE IF ComponentEnd(p) = 0 THEN p
        ELSE IF Len(comp) > Len(suffix) /\ endsWith(comp, suffix)
             THEN SubSeq(comp, 1, Len(comp) - Len(suffix))
        ELSE IF Len(comp) < Len(suffix) /\ endsWith(suffix, comp)
             \* the component ran out while the suffix still matched: Node
             \* then keeps everything up to the end of the path
             THEN SubSeq(p, ComponentStart(p), Len(p))
        ELSE comp

\* path.extname(p)
extname(p) ==
    LET end == ComponentEnd(p)
        startPart == ComponentStart(p)
        startDot == LastIndex(p, CHAR_DOT, TRUE, startPart, end)
    IN  IF startDot = 0 \/ startDot = startPart
        THEN <<>>
        ELSE IF p[startPart] = CHAR_DOT /\ startDot = end /\ startDot = startPart + 1
        THEN <<>>
        ELSE SubSeq(p, startDot, end)

\* the components of p, in order
Segments(p) ==
    LET starts == {i \in 1..Len(p) :
                     /\ p[i] # CHAR_FORWARD_SLASH
                     /\ (i = 1 \/ p[i - 1] = CHAR_FORWARD_SLASH)}
        stop(i) == CHOOSE j \in i..Len(p) :
                      /\ j = Len(p) \/ p[j + 1] = CHAR_FORWARD_SLASH
                      /\ \A k \in i..j : p[k] # CHAR_FORWARD_SLASH
        nth(k) == CHOOSE i \in starts : Cardinality({j \in starts : j < i}) = k - 1
    IN  [k \in 1..Cardinality(starts) |-> SubSeq(p, nth(k), stop(nth(k)))]

DotDot == <<CHAR_DOT, CHAR_DOT>>

\* normalizeString: "." is dropped, ".." removes the component before it
RECURSIVE Resolve(_, _, _, _)
Resolve(segs, k, allowAboveRoot, res) ==
    IF k > Len(segs) THEN res
    ELSE IF segs[k] = <<CHAR_DOT>> THEN Resolve(segs, k + 1, allowAboveRoot, res)
    ELSE IF segs[k] = DotDot
         THEN IF Len(res) > 0 /\ res[Len(res)] # DotDot
              THEN Resolve(segs, k + 1, allowAboveRoot, SubSeq(res, 1, Len(res) - 1))
              ELSE IF allowAboveRoot
              THEN Resolve(segs, k + 1, allowAboveRoot, Append(res, DotDot))
              ELSE Resolve(segs, k + 1, allowAboveRoot, res)
    ELSE Resolve(segs, k + 1, allowAboveRoot, Append(res, segs[k]))

\* the segments joined by the separator
RECURSIVE JoinSegments(_, _)
JoinSegments(segs, k) ==
    IF k > Len(segs) THEN <<>>
    ELSE IF k = Len(segs) THEN segs[k]
    ELSE segs[k] \o <<CHAR_FORWARD_SLASH>> \o JoinSegments(segs, k + 1)

\* path.normalize(p)
normalize(p) ==
    IF Len(p) = 0 THEN <<CHAR_DOT>>
    ELSE LET isAbsolute == p[1] = CHAR_FORWARD_SLASH
             trailingSeparator == p[Len(p)] = CHAR_FORWARD_SLASH
             \* (the components, and what they resolve to, computed once)
             body == CHOOSE joined \in
                         {JoinSegments(resolved, 1) :
                             resolved \in {Resolve(segs, 1, ~isAbsolute, <<>>) :
                                              segs \in {Segments(p)}}} : TRUE
         IN  IF Len(body) = 0
             THEN IF isAbsolute THEN <<CHAR_FORWARD_SLASH>>
                  ELSE IF trailingSeparator THEN <<CHAR_DOT, CHAR_FORWARD_SLASH>>
                  ELSE <<CHAR_DOT>>
             ELSE (IF isAbsolute THEN <<CHAR_FORWARD_SLASH>> ELSE <<>>)
                  \o body
                  \o (IF trailingSeparator THEN <<CHAR_FORWARD_SLASH>> ELSE <<>>)

\* path.join(a, b): the non-empty arguments joined by the separator, normalized
join(a, b) ==
    IF Len(a) = 0 /\ Len(b) = 0 THEN <<CHAR_DOT>>
    ELSE IF Len(a) = 0 THEN normalize(b)
    ELSE IF Len(b) = 0 THEN normalize(a)
    ELSE CHOOSE normalized \in
             {normalize(joined) : joined \in {a \o <<CHAR_FORWARD_SLASH>> \o b}} : TRUE

\* ------------------------------------------------------- the naming helpers
\* \w of a regular expression without the u flag: [A-Za-z0-9_]
IsWordChar(c) ==
    \/ c >= 48 /\ c <= 57
    \/ c >= 65 /\ c <= 90
    \/ c >= 97 /\ c <= 122
    \/ c = 95

IsAlphaNumeric(c) ==
    \/ c >= 48 /\ c <= 57
    \/ c >= 65 /\ c <= 90
    \/ c >= 97 /\ c <= 122

\* a sanitizer whose pattern lacks the dot: /[^\w@]/
sanitizeBasenameWithoutDot(name) ==
    [i \in 1..Len(name) |->
        IF IsWordChar(name[i]) \/ name[i] = CHAR_AT THEN name[i] ELSE DASH]

\* a sanitizer whose pattern has the u flag: a surrogate pair is one
\* character and gets one dash
sanitizeBasenameUnicode(name) ==
    Flatten([i \in 1..Len(name) |->
        IF IsWordChar(name[i]) \/ name[i] = CHAR_AT \/ name[i] = CHAR_DOT
        THEN <<name[i]>>
        ELSE IF IsLowSurrogate(name[i]) /\ i > 1 /\ IsHighSurrogate(name[i - 1])
        THEN <<>>
        ELSE <<DASH>>])

\* basename.replace(/[^\w@.]/gi, '-'): the pattern is matched against each
\* UTF-16 code unit (the expression has no u flag)
sanitizeBasename(name) ==
    [i \in 1..Len(name) |->
        IF IsWordChar(name[i]) \/ name[i] = CHAR_AT \/ name[i] = CHAR_DOT
        THEN name[i]
        ELSE DASH]

\* a pattern that accepts a group of one character: /(\.[a-z0-9]{1,10})+$/i
MatchesExtensionFromOne(ext) ==
    \E n \in 1..10 :
        /\ Len(ext) >= n + 1
        /\ ext[Len(ext) - n] = CHAR_DOT
        /\ \A i \in (Len(ext) - n + 1)..Len(ext) : IsAlphaNumeric(ext[i])

\* ext.match(/(\.[a-z0-9]{2,10})+$/i): some suffix of ext is one or more
\* groups of a dot and 2 to 10 letters or digits.  Such a suffix exists iff
\* ext ends with one such group.
MatchesExtension(ext) ==
    \E n \in 2..10 :
        /\ Len(ext) >= n + 1
        /\ ext[Len(ext) - n] = CHAR_DOT
        /\ \A i \in (Len(ext) - n + 1)..Len(ext) : IsAlphaNumeric(ext[i])

getFileExtension(filename) ==
    LET ext == extname(filename)
    IN  IF ~MatchesExtension(ext) THEN <<>> ELSE ext

\* a getSuffix that looks for the suffix at the end of the whole file name
getSuffixOfFilename(filename, ext, suffix) ==
    IF ~endsWith(basename(filename, undefined), suffix) THEN <<>> ELSE suffix

getSuffix(filename, ext, suffix) ==
    LET stem == basename(filename, ext)
    IN  IF ~endsWith(stem, suffix) THEN <<>> ELSE suffix

HexDigits == <<48, 49, 50, 51, 52, 53, 54, 55, 56, 57, 97, 98, 99, 100, 101, 102>>

\* a conversion that writes the digits above 9 in upper case
toStringHexUpperCase(bytes) ==
    [i \in 1..(2 * Len(bytes)) |->
        LET d == IF i % 2 = 1 THEN bytes[(i + 1) \div 2] \div 16 ELSE bytes[i \div 2] % 16
        IN  IF d < 10 THEN 48 + d ELSE 55 + d]

\* Buffer.prototype.toString('hex'): two lowercase digits per byte
toStringHex(bytes) ==
    [i \in 1..(2 * Len(bytes)) |->
        IF i % 2 = 1
        THEN HexDigits[(bytes[(i + 1) \div 2] \div 16) + 1]
        ELSE HexDigits[(bytes[i \div 2] % 16) + 1]]

\* crypto.randomBytes(8)
HASH_BYTES == 8

\* a generateSecureHash that computes the hash once and keeps it
generateSecureHashCached(randomBytes) == toStringHex(Rep(<<0>>, HASH_BYTES))

\* generateSecureHash, given what crypto.randomBytes(HASH_BYTES) returned
generateSecureHash(randomBytes) == toStringHex(randomBytes)

generateUniqueFilename(stem, suffix, ext, randomBytes) ==
    generateFilename(stem, generateSecureHash(randomBytes), suffix, ext)

\* a getUniquePathname that leaves the suffix marker in the stem
getUniquePathnameMarkerInStem(fileName, fileSuffix, targetDir, randomBytes) ==
    LET name == sanitizeBasename(basename(fileName, undefined))
        ext == getFileExtension(name)
        suffix == getSuffix(name, ext, default(fileSuffix, ORIGINAL_SUFFIX))
        stem == basename(name, ext)
        filename == generateUniqueFilename(stem, suffix, ext, randomBytes)
    IN  join(targetDir, filename)

\* a getUniquePathname that sanitizes the whole of file.name, directories
\* included
getUniquePathnameOfWholeName(fileName, fileSuffix, targetDir, randomBytes) ==
    LET name == sanitizeBasename(fileName)
        ext == getFileExtension(name)
        suffix == getSuffix(name, ext, default(fileSuffix, ORIGINAL_SUFFIX))
        stem == basename(name, suffix \o ext)
        filename == generateUniqueFilename(stem, suffix, ext, randomBytes)
    IN  join(targetDir, filename)

\* getUniquePathname({file: {name, suffix}, targetDir}), which a later
\* version of the class names getUniqueSecureFilePath
getUniquePathname(fileName, fileSuffix, targetDir, randomBytes) ==
    LET name == sanitizeBasename(basename(fileName, undefined))
        ext == getFileExtension(name)
        suffix == getSuffix(name, ext, default(fileSuffix, ORIGINAL_SUFFIX))
        stem == basename(name, suffix \o ext)
        filename == generateUniqueFilename(stem, suffix, ext, randomBytes)
    IN  join(targetDir, filename)

\* ------------------------------------------- the deprecated numbering path
\* the value null
null == << -2 >>

\* '-' + i: the decimal digits of a number i >= 0
RECURSIVE NumberToString(_)
NumberToString(i) ==
    IF i < 10 THEN <<48 + i>> ELSE NumberToString(i \div 10) \o <<48 + (i % 10)>>

\* ext.match(/\.\d+$/): ext ends with a dot and one or more digits
MatchesDigits(ext) ==
    \E n \in 1..(Len(ext) - 1) :
        /\ ext[Len(ext) - n] = CHAR_DOT
        /\ \A j \in (Len(ext) - n + 1)..Len(ext) : ext[j] \in 48..57

\* getUniqueFileName(file, targetDir): the name and ext it passes to
\* generateUnique(targetDir, name, ext, 0)
getUniqueFileName(fileName) ==
    LET ext == extname(fileName)
    IN  IF ~MatchesDigits(ext)
        THEN [name |-> sanitizeBasename(basename(fileName, ext)), ext |-> ext]
        ELSE [name |-> sanitizeBasename(basename(fileName, undefined)), ext |-> null]

\* the async getUniqueFileName: the name and ext it passes to
\* generateUnique(targetDir, name, ext)
getUniqueFileNameAsync(fileName) ==
    LET ext == extname(fileName)
        name == sanitizeBasename(basename(fileName, ext))
    IN  [name |-> name, ext |-> IF MatchesDigits(ext) THEN null ELSE ext]

\* a generateUnique that numbers the first candidate too
candidateAlwaysNumbered(name, ext, i) ==
    LET append == <<DASH>> \o NumberToString(i)
    IN  IF ext # null /\ Len(ext) > 0 THEN name \o append \o ext ELSE name \o append

\* generateUnique(dir, name, ext, i), up to the call of this.exists: the
\* file name it asks about (its variable filename)
candidate(name, ext, i) ==
    LET append == IF i # 0 THEN <<DASH>> \o NumberToString(i) ELSE <<>>
    IN  IF ext # null /\ Len(ext) > 0 THEN name \o append \o ext ELSE name \o append

\* a callback that takes the name that exists
thenInverted(exists, dir, name, ext, i) ==
    IF ~exists
    THEN [again |-> TRUE, i |-> i + 1, value |-> undefined]
    ELSE [again |-> FALSE, i |-> i, value |-> join(dir, candidate(name, ext, i))]

\* a callback that skips a candidate when it numbers again
thenSkipping(exists, dir, name, ext, i) ==
    IF exists
    THEN [again |-> TRUE, i |-> i + 2, value |-> undefined]
    ELSE [again |-> FALSE, i |-> i, value |-> join(dir, candidate(name, ext, i))]

\* a callback that gives up numbering after the first retry
thenCapped(exists, dir, name, ext, i) ==
    IF exists /\ i < 1
    THEN [again |-> TRUE, i |-> i + 1, value |-> undefined]
    ELSE [again |-> FALSE, i |-> i, value |-> join(dir, candidate(name, ext, i))]

\* generateUnique, the callback of this.exists(filename, dir).then: call
\* generateUnique again with i + 1, or return the path
then(exists, dir, name, ext, i) ==
    IF exists
    THEN [again |-> TRUE, i |-> i + 1, value |-> undefined]
    ELSE [again |-> FALSE, i |-> i, value |-> join(dir, candidate(name, ext, i))]

\* ------------------------------------------------------------------ inputs
\* Characters the inputs are built from, as UTF-16 code units.
\* a 1 _ @ . - ( are ASCII, U+00E9 takes 2 bytes in UTF-8, D83C DF34 is the
\* surrogate pair of U+1F334 (4 bytes); taken one by one the two surrogates
\* also give the strings with a lone surrogate.
Alphabet == {97, 49, 95, 64, 46, 45, 40, 233, 55356, 57140}

\* the strings over A of at most n code units
RECURSIVE Strings(_, _)
Strings(A, n) ==
    IF n = 0 THEN {<<>>}
    ELSE LET shorter == Strings(A, n - 1)
         IN  shorter \cup {Append(s, c) : s \in {t \in shorter : Len(t) = n - 1}, c \in A}

\* 'a', U+00E9, U+20AC, U+1F334: one character of 1, 2, 3 and 4 bytes
Units == {<<97>>, <<233>>, <<8364>>, <<55356, 57140>>}

\* how many times a unit of w bytes is repeated: a few times, or so often
\* that the name comes close to MAX_FILENAME_BYTES or exceeds it
Counts(w) ==
    {n \in 0..((MAX_FILENAME_BYTES + MaxExcess) \div w) :
        n <= MaxShort \/ n * w >= MAX_FILENAME_BYTES - NearLimit}

\* the stems: a unit repeated, alone or after 'b' (so that the characters
\* after it are not aligned with the limit); and ASCII stems that start
\* with a byte order mark
Stems ==
    UNION {{p \o Rep(u, n) :
               p \in IF Len(encode(u)) = 1 THEN {<<>>} ELSE {<<>>, <<98>>},
               n \in Counts(Len(encode(u)))} : u \in Units}
    \cup {<<BYTE_ORDER_MARK>> \o Rep(<<97>>, n) : n \in Counts(1)}

\* 'a1b2c3d4e5f6', the hash of the tests
TestHash == <<97, 49, 98, 50, 99, 51, 100, 52, 101, 53, 102, 54>>

\* what crypto.randomBytes(HASH_BYTES) may return (a sample of the 2^64 values)
RandomBytes ==
    {Rep(<<0>>, HASH_BYTES), Rep(<<161, 178>>, HASH_BYTES \div 2)}

\* '.jpg' and '.png'
ExtJpg == <<46, 106, 112, 103>>

ExtPng == <<46, 112, 110, 103>>

\* the optional arguments of generateFilename: suffix and ext
OptionalArguments ==
    {<<undefined, undefined>>, <<ORIGINAL_SUFFIX, undefined>>,
     <<undefined, ExtJpg>>, <<ORIGINAL_SUFFIX, ExtJpg>>, <<<<>>, <<>>>>}

GenerateFilenameCalls ==
    {[op |-> "generateFilename", stem |-> st, hash |-> h,
      suffix |-> o[1], ext |-> o[2]] :
        st \in Stems,
        h \in {TestHash, generateSecureHash(Rep(<<161, 178>>, HASH_BYTES \div 2))},
        o \in OptionalArguments}
    \cup
    \* a hash that alone is longer than MAX_FILENAME_BYTES
    {[op |-> "generateFilename", stem |-> Rep(<<97>>, n),
      hash |-> Rep(<<102>>, MAX_FILENAME_BYTES + k), suffix |-> undefined, ext |-> e] :
        n \in 0..MaxShort, k \in 0..MaxShort, e \in {undefined, ExtJpg}}

SanitizeBasenameCalls ==
    {[op |-> "sanitizeBasename", basename |-> s] : s \in Strings(Alphabet, MaxShort + 1)}

\* the characters of the trailing group of a file name
GroupChars == {49, 51, 97, 90, 95, 45}

\* names that end with a dot and a group of 0..MaxGroup characters
GroupNames ==
    {p \o <<CHAR_DOT>> \o Rep(<<c>>, n) \o t :
        p \in {<<>>, <<97>>, <<97, 46, 98>>, <<46>>},
        c \in GroupChars, n \in 0..MaxGroup,
        t \in {<<>>} \cup {<<d>> : d \in GroupChars}}

GetFileExtensionCalls ==
    {[op |-> "getFileExtension", filename |-> s] :
        s \in GroupNames \cup Strings({97, 49, 95, 46, 45, 47}, MaxShort + 1)}

\* a _ o . 1
SuffixAlphabet == {97, 95, 111, 46, 49}

GetSuffixCalls ==
    {[op |-> "getSuffix", filename |-> s \o e, ext |-> x, suffix |-> sf] :
        s \in Strings(SuffixAlphabet, MaxShort + 1),
        e \in {<<>>, ExtPng},
        x \in {<<>>, ExtPng},
        sf \in {<<>>, ORIGINAL_SUFFIX}}

\* the endings of the uploaded names: none, '.png', '_o.png', '_o', '.1',
\* '.abcdefghij', '_t.png'
Endings ==
    {<<>>, ExtPng, ORIGINAL_SUFFIX \o ExtPng, ORIGINAL_SUFFIX, <<46, 49>>,
     <<46, 97, 98, 99, 100, 101, 102, 103, 104, 105, 106>>, <<95, 116>> \o ExtPng}

\* long names: the file names whose generated name comes close to the limit
\* or exceeds it ('a' repeated, then an ending; U+1F334 repeated, then '.png')
LongNames ==
    {Rep(<<97>>, n) \o t : n \in {k \in Counts(1) : k > MaxShort}, t \in Endings}
    \cup {Rep(<<55356, 57140>>, n) \o ExtPng : n \in {k \in Counts(2) : k > MaxShort}}

\* short names, with a directory prefix or without
ShortNames ==
    {d \o s \o t :
        d \in {<<>>, <<120, 47>>},
        s \in Strings({97, 40, 46}, MaxShort),
        t \in Endings}

\* 't', 'c//i/'
TargetDirs == {<<116>>, <<99, 47, 47, 105, 47>>}

GetUniquePathnameCalls ==
    {[op |-> "getUniquePathname", name |-> n, suffix |-> sf, targetDir |-> d] :
        n \in ShortNames, sf \in {undefined, <<95, 116>>}, d \in TargetDirs}
    \cup
    {[op |-> "getUniquePathname", name |-> n, suffix |-> undefined,
      targetDir |-> <<116>>] : n \in LongNames}

GenerateSecureHashCalls == {[op |-> "generateSecureHash"]}

Calls ==
    GenerateFilenameCalls \cup SanitizeBasenameCalls \cup GetFileExtensionCalls
    \cup GetSuffixCalls \cup GetUniquePathnameCalls \cup GenerateSecureHashCalls

\* ------------------------------------------------------------- the machine
\* The class keeps no state of its own.  The state is that of one caller:
\* call:    the method it calls and the arguments it passes
\* returns: what the successive calls returned, oldest first
\* draws:   what crypto.randomBytes returned to these calls, oldest first
\* The deprecated numbering path suspends at this.exists, so that calls of it
\* overlap.  Its state is
\* frames:  for each caller of getUniqueFileName, the arguments and the
\*          variables of its call of generateUnique, and where it stands
\* stored:  the paths at which the storage backend holds a file
\* backend: how the backend answers exists ("stored": by looking at stored;
\*          "always": it says that everything exists)
VARIABLES call, returns, draws, frames, stored, backend

vars == <<call, returns, draws, frames, stored, backend>>

\* the variables of the numbering path
numbering == <<frames, stored, backend>>

Init ==
    /\ call \in Calls
    /\ returns = <<>>
    /\ draws = <<>>
    /\ frames = <<>>
    /\ stored = {}
    /\ backend = "none"

\* a call of a method that draws no random bytes
Return(value) ==
    /\ Len(returns) < MaxCalls
    /\ returns' = Append(returns, value)
    /\ UNCHANGED <<call, draws, numbering>>

GenerateFilename ==
    /\ call.op = "generateFilename"
    /\ Return(generateFilename(call.stem, call.hash, call.suffix, call.ext))

SanitizeBasename ==
    /\ call.op = "sanitizeBasename"
    /\ Return(sanitizeBasename(call.basename))

GetFileExtension ==
    /\ call.op = "getFileExtension"
    /\ Return(getFileExtension(call.filename))

GetSuffix ==
    /\ call.op = "getSuffix"
    /\ Return(getSuffix(call.filename, call.ext, call.suffix))

GenerateSecureHash ==
    /\ call.op = "generateSecureHash"
    /\ Len(returns) < MaxCalls
    /\ \E randomBytes \in RandomBytes :
          /\ draws' = Append(draws, randomBytes)
          /\ returns' = Append(returns, generateSecureHash(randomBytes))
    /\ UNCHANGED <<call, numbering>>

GetUniquePathname ==
    /\ call.op = "getUniquePathname"
    /\ Len(returns) < MaxCalls
    /\ \E randomBytes \in RandomBytes :
          /\ draws' = Append(draws, randomBytes)
          /\ returns' = Append(returns,
                 getUniquePathname(call.name, call.suffix, call.targetDir, randomBytes))
    /\ UNCHANGED <<call, numbering>>

Next ==
    \/ GenerateFilename
    \/ SanitizeBasename
    \/ GetFileExtension
    \/ GetSuffix
    \/ GenerateSecureHash
    \/ GetUniquePathname

Spec == Init /\ [][Next]_vars

\* ---------------------------------------- the machine of the numbering path
\* the callers whose calls of getUniqueFileName overlap
Callers == {1, 2}

\* 'something', 'target-dir'
Something == <<115, 111, 109, 101, 116, 104, 105, 110, 103>>

TargetDir == <<116, 97, 114, 103, 101, 116, 45, 100, 105, 114>>

\* the names of the files: 'something.jpg', 'something.mp4', 'something.1',
\* 'something.342', 'something', 'x/\u00E9.p(g', '(abc*@#123).zip'
FileNames ==
    {Something \o ExtJpg, Something \o <<46, 109, 112, 52>>, Something \o <<46, 49>>,
     Something \o <<46, 51, 52, 50>>, Something, <<120, 47, 233, 46, 112, 40, 103>>,
     <<40, 97, 98, 99, 42, 64, 35, 49, 50, 51, 41, 46, 122, 105, 112>>}

\* the getUniqueFileName of the storage the callers use: the one that chains
\* promises or the async one
Variants == {"promise", "async"}

\* what a caller passes to generateUnique
ArgumentsOf(variant, fileName) ==
    IF variant = "async" THEN getUniqueFileNameAsync(fileName)
    ELSE getUniqueFileName(fileName)

\* a caller that has not called yet
Idle(fileName, variant, targetDir) ==
    [pc |-> "idle", file |-> fileName, variant |-> variant, targetDir |-> targetDir,
     name |-> <<>>, ext |-> null, i |-> 0, filename |-> <<>>, exists |-> FALSE,
     answers |-> <<>>, checked |-> <<>>, saved |-> {}, value |-> undefined]

\* the paths of the first candidates of a call
FirstCandidates(fileName, variant, targetDir) ==
    LET a == ArgumentsOf(variant, fileName)
    IN  {join(targetDir, candidate(a.name, a.ext, j)) : j \in 0..MaxCounter}

NumberingInit ==
    /\ call = [op |-> "getUniqueFileName"]
    /\ returns = <<>>
    /\ draws = <<>>
    /\ backend \in {"stored", "always"}
    /\ \E names \in [Callers -> FileNames], variant \in Variants :
          /\ frames = [p \in Callers |-> Idle(names[p], variant, TargetDir)]
          /\ stored \in IF backend = "always" THEN {{}}
                         ELSE SUBSET FirstCandidates(names[1], variant, TargetDir)

\* getUniqueFileName and the first generateUnique, up to its call of
\* this.exists(filename, dir)
GetUniqueFileName(p) ==
    /\ frames[p].pc = "idle"
    /\ LET f == frames[p]
           a == ArgumentsOf(f.variant, f.file)
       IN  frames' = [frames EXCEPT ![p] =
               [f EXCEPT !.pc = "exists", !.name = a.name, !.ext = a.ext, !.i = 0,
                         !.filename = candidate(a.name, a.ext, 0),
                         !.checked = <<candidate(a.name, a.ext, 0)>>]]
    /\ UNCHANGED <<call, returns, draws, stored, backend>>

\* the backend settles the promise of this.exists(filename, dir)
Exists(p) ==
    /\ frames[p].pc = "exists"
    /\ LET f == frames[p]
           exists == IF backend = "always" THEN TRUE
                     ELSE join(f.targetDir, f.filename) \in stored
       IN  frames' = [frames EXCEPT ![p] =
               [f EXCEPT !.pc = "then", !.exists = exists,
                         !.answers = Append(f.answers, exists),
                         !.saved = {q \in Callers : frames[q].pc = "saved"}]]
    /\ UNCHANGED <<call, returns, draws, stored, backend>>

\* the callback of this.exists(filename, dir).then; when it calls
\* generateUnique again, up to the next call of this.exists
Then(p) ==
    /\ frames[p].pc = "then"
    /\ LET f == frames[p]
           t == then(f.exists, f.targetDir, f.name, f.ext, f.i)
       IN  /\ t.again => f.i < MaxCounter
           /\ frames' = [frames EXCEPT ![p] =
                  IF t.again
                  THEN [f EXCEPT !.pc = "exists", !.i = t.i,
                                 !.filename = candidate(f.name, f.ext, t.i),
                                 !.checked = Append(f.checked, candidate(f.name, f.ext, t.i))]
                  ELSE [f EXCEPT !.pc = "done", !.value = t.value]]
    /\ UNCHANGED <<call, returns, draws, stored, backend>>

\* the caller writes its file at the path it was returned
Save(p) ==
    /\ frames[p].pc = "done"
    /\ frames' = [frames EXCEPT ![p].pc = "saved"]
    /\ stored' = stored \cup {frames[p].value}
    /\ UNCHANGED <<call, returns, draws, backend>>

NumberingNext ==
    \/ \E p \in Callers : GetUniqueFileName(p)
    \/ \E p \in Callers : Exists(p)
    \/ \E p \in Callers : Then(p)
    \/ \E p \in Callers : Save(p)

NumberingSpec == NumberingInit /\ [][NumberingNext]_vars

\* The same machine with what its scheduling guarantees: the promise of
\* this.exists is settled (the backend answers), and the event loop runs the
\* callback of a settled promise.  Nothing makes a caller call, or write.
\* Its callers ask for 'something.jpg' or 'something.1' (an extension kept,
\* and one taken as part of the name).
NumberingFairInit ==
    /\ NumberingInit
    /\ \A p \in Callers :
          frames[p].file \in {Something \o ExtJpg, Something \o <<46, 49>>}

NumberingFairSpec ==
    /\ NumberingFairInit
    /\ [][NumberingNext]_vars
    /\ \A p \in Callers : WF_vars(Exists(p)) /\ WF_vars(Then(p))

\* ------------------------------- overlapping calls of getUniquePathname
\* Two callers run getUniquePathname at the same time, one statement at a
\* time (a finer interleaving than one thread's event loop allows: it is
\* that of callers running in parallel).  frames holds, for each caller, the
\* arguments and the constants its call has bound so far.

\* 'image_o.png', 'x/\u00E9(.png', 'something.1', '.png', 'a_t.jpg',
\* 'a' x 260 + '.png'
OverlappingFiles ==
    {<<105, 109, 97, 103, 101>> \o ORIGINAL_SUFFIX \o ExtPng,
     <<120, 47, 233, 40>> \o ExtPng, Something \o <<46, 49>>, ExtPng,
     <<97, 95, 116>> \o ExtJpg, Rep(<<97>>, 260) \o ExtPng}

\* a binding that is shared by all the calls (a variable declared outside
\* the method, or not declared at all)
assignShared(fs, p, variable, value) ==
    [q \in DOMAIN fs |-> [fs[q] EXCEPT ![variable] = value]]

\* const variable = value, in the call of caller p
assign(fs, p, variable, value) == [fs EXCEPT ![p][variable] = value]

\* caller p binds a constant and goes on to the next statement
Bind(p, variable, value, next) ==
    /\ frames' = [assign(frames, p, variable, value) EXCEPT ![p].pc = next]
    /\ UNCHANGED <<call, returns, draws, stored, backend>>

\* a caller that has entered getUniquePathname({file: {name, suffix}, targetDir})
Entered(fileName, fileSuffix, targetDir) ==
    [pc |-> "basename", fileName |-> fileName,
     fileSuffix |-> default(fileSuffix, ORIGINAL_SUFFIX), targetDir |-> targetDir,
     basename |-> undefined, ext |-> undefined, suffix |-> undefined,
     stem |-> undefined, hash |-> undefined, filename |-> undefined,
     value |-> undefined, suffixArgument |-> fileSuffix, randomBytes |-> undefined]

OverlappingInit ==
    /\ call = [op |-> "getUniquePathname"]
    /\ returns = <<>>
    /\ draws = <<>>
    /\ stored = {}
    /\ backend = "none"
    /\ \E names \in [Callers -> OverlappingFiles],
          suffixes \in [Callers -> {undefined, <<95, 116>>}] :
          frames = [p \in Callers |-> Entered(names[p], suffixes[p], TargetDir)]

\* const basename = this.sanitizeBasename(path.basename(fileName));
BindBasename(p) ==
    /\ frames[p].pc = "basename"
    /\ Bind(p, "basename", sanitizeBasename(basename(frames[p].fileName, undefined)), "ext")

\* const ext = this.getFileExtension(basename);
BindExt(p) ==
    /\ frames[p].pc = "ext"
    /\ Bind(p, "ext", getFileExtension(frames[p].basename), "suffix")

\* const suffix = this.getSuffix(basename, ext, fileSuffix);
BindSuffix(p) ==
    /\ frames[p].pc = "suffix"
    /\ Bind(p, "suffix",
            getSuffix(frames[p].basename, frames[p].ext, frames[p].fileSuffix), "stem")

\* const stem = path.basename(basename, suffix + ext);
BindStem(p) ==
    /\ frames[p].pc = "stem"
    /\ Bind(p, "stem",
            basename(frames[p].basename, frames[p].suffix \o frames[p].ext), "hash")

\* generateUniqueFilename: const hash = this.generateSecureHash();
BindHash(p) ==
    /\ frames[p].pc = "hash"
    /\ \E randomBytes \in RandomBytes :
          frames' = [assign(frames, p, "hash", generateSecureHash(randomBytes))
                        EXCEPT ![p].pc = "filename", ![p].randomBytes = randomBytes]
    /\ UNCHANGED <<call, returns, draws, stored, backend>>

\* generateUniqueFilename: return this.generateFilename({stem, hash, suffix, ext});
\* bound to const filename
BindFilename(p) ==
    /\ frames[p].pc = "filename"
    /\ Bind(p, "filename",
            generateFilename(frames[p].stem, frames[p].hash, frames[p].suffix,
                             frames[p].ext), "return")

\* return path.join(targetDir, filename);
ReturnPathname(p) ==
    /\ frames[p].pc = "return"
    /\ frames' = [frames EXCEPT ![p].pc = "done",
                                ![p].value = join(frames[p].targetDir, frames[p].filename)]
    /\ UNCHANGED <<call, returns, draws, stored, backend>>

OverlappingNext ==
    \/ \E p \in Callers : BindBasename(p)
    \/ \E p \in Callers : BindExt(p)
    \/ \E p \in Callers : BindSuffix(p)
    \/ \E p \in Callers : BindStem(p)
    \/ \E p \in Callers : BindHash(p)
    \/ \E p \in Callers : BindFilename(p)
    \/ \E p \in Callers : ReturnPathname(p)

OverlappingSpec == OverlappingInit /\ [][OverlappingNext]_vars

\* ------------------------------------------------------------------ claims
\* the values the calls made so far returned
Returned == {returns[k] : k \in 1..Len(returns)}

\* byte length of a string in UTF-8
ByteLength(s) == Len(encode(s))

\* what generateFilename is asked to put after the stem
TailOf(c) == <<DASH>> \o c.hash \o default(c.suffix, <<>>) \o default(c.ext, <<>>)

\* the part of a generated name r that is before the tail
HeadOf(r, c) == SubSeq(r, 1, Len(r) - Len(TailOf(c)))

\* the bytes by which stem + tail exceeds the maximum (<= 0: it does not)
ExcessOf(c) == ByteLength(c.stem \o TailOf(c)) - MAX_FILENAME_BYTES

IsAscii(s) == \A i \in 1..Len(s) : s[i] < 128

\* [A-Za-z0-9_@.-]
SafeCharacters == (48..57) \cup (65..90) \cup (97..122) \cup {95, 64, 46, 45}

\* the number of characters (code points) of a string: a surrogate pair is one
CharacterCount(s) ==
    Len(s) - Cardinality({i \in 2..Len(s) :
                             IsHighSurrogate(s[i - 1]) /\ IsLowSurrogate(s[i])})

\* C1 (as claimed): every name generateFilename returns is at most
\* MAX_FILENAME_BYTES bytes long in UTF-8.
C1_WithinMaxBytes ==
    call.op = "generateFilename" =>
        \A r \in Returned : ByteLength(r) <= MAX_FILENAME_BYTES

\* C2: every name generateFilename returns ends with "-" + hash + suffix + ext
\* as passed in, and what is before it is no longer than the stem.
C2_TailIntact ==
    call.op = "generateFilename" =>
        \A r \in Returned :
            /\ endsWith(r, TailOf(call))
            /\ Len(r) - Len(TailOf(call)) <= Len(call.stem)

C2_Witness ==
    /\ call.op = "generateFilename"
    /\ ExcessOf(call) > 0
    /\ ~IsAscii(call.stem)
    /\ Len(returns) > 0

\* C3 (as claimed): what generateFilename keeps before "-hash" is a prefix of
\* the stem that ends between two characters of it.
C3_WholeCharacters ==
    call.op = "generateFilename" =>
        \A r \in Returned :
            LET head == HeadOf(r, call)
                n == Len(head)
            IN  /\ n <= Len(call.stem)
                /\ head = SubSeq(call.stem, 1, n)
                /\ ~(/\ n >= 1
                     /\ n < Len(call.stem)
                     /\ IsHighSurrogate(call.stem[n])
                     /\ IsLowSurrogate(call.stem[n + 1]))

\* the file name in a path that getUniquePathname returned
FilenameOf(path) == LastComponent(path)

\* C4: with the default suffix marker, the file name of the path that
\* getUniquePathname returns is at most 255 bytes long, and exactly 255 when
\* the sanitized name (stem + suffix + extension) with "-" and the 16
\* characters of the hash is longer than 255 bytes.
C4_PathnameWithinLimit ==
    (call.op = "getUniquePathname" /\ call.suffix = undefined) =>
        \A r \in Returned :
            /\ ByteLength(FilenameOf(r)) <= 255
            /\ Len(LastComponent(call.name)) + 1 + 16 > 255
                  => ByteLength(FilenameOf(r)) = 255

C4_Witness ==
    /\ call.op = "getUniquePathname"
    /\ call.suffix = undefined
    /\ Len(LastComponent(call.name)) + 1 + 16 > 255
    /\ Len(returns) > 0

\* C5 (as claimed): repeated calls of getUniquePathname with the same file and
\* target directory never return the same path twice.
C5_NeverTheSamePath ==
    call.op = "getUniquePathname" =>
        \A i, j \in 1..Len(returns) : i # j => returns[i] # returns[j]

\* C5 (amended): every call draws its own random bytes, and two calls with
\* the same file and target directory return the same path exactly when the
\* random source gave both the same bytes.
C5_FreshHashPerCall ==
    call.op = "getUniquePathname" =>
        /\ Len(draws) = Len(returns)
        /\ \A i, j \in 1..Len(returns) :
              (returns[i] = returns[j]) <=> (draws[i] = draws[j])

C5_Witness ==
    /\ call.op = "getUniquePathname"
    /\ Len(returns) >= 2
    /\ draws[1] # draws[2]

\* C6: when stem + "-" + hash + suffix + ext is at most MAX_FILENAME_BYTES
\* bytes long, generateFilename returns it unchanged, an omitted suffix or
\* extension being the empty string.
C6_FittingNameUnchanged ==
    (call.op = "generateFilename" /\ ExcessOf(call) <= 0) =>
        \A r \in Returned :
            r = call.stem \o <<DASH>> \o call.hash
                  \o (IF call.suffix = undefined THEN <<>> ELSE call.suffix)
                  \o (IF call.ext = undefined THEN <<>> ELSE call.ext)

C6_Witness ==
    /\ call.op = "generateFilename"
    /\ ExcessOf(call) = 0
    /\ call.suffix = undefined
    /\ Len(returns) > 0

C8_SanitizeIdempotent ==
    call.op = "sanitizeBasename" =>
        \A r \in Returned :
            /\ sanitizeBasename(r) = r
            /\ \A i \in 1..Len(r) : r[i] \in SafeCharacters
            /\ (\A i \in 1..Len(call.basename) : call.basename[i] \in SafeCharacters)
                  => r = call.basename

C8_Witness ==
    /\ call.op = "sanitizeBasename"
    /\ Len(returns) > 0
    /\ \E i \in 1..Len(call.basename) : call.basename[i] \notin SafeCharacters
    /\ \E i \in 1..Len(call.basename) : call.basename[i] = CHAR_DOT

\* C9 (as claimed): the sanitized name has as many characters as the name,
\* one dash for each character outside [A-Za-z0-9_@.], whatever its encoding.
C9_OneDashPerCharacter ==
    call.op = "sanitizeBasename" =>
        \A r \in Returned : CharacterCount(r) = CharacterCount(call.basename)

\* C9 (amended): the sanitized name has as many UTF-16 code units as the
\* name; a code unit in [A-Za-z0-9_@.] stays at its position and every other
\* code unit becomes one dash, so that a character outside the Basic
\* Multilingual Plane (a surrogate pair) becomes two dashes.
C9_OneDashPerCodeUnit ==
    call.op = "sanitizeBasename" =>
        \A r \in Returned :
            /\ Len(r) = Len(call.basename)
            /\ \A i \in 1..Len(r) :
                  r[i] = IF call.basename[i] \in SafeCharacters \ {DASH}
                         THEN call.basename[i]
                         ELSE DASH

C9_Witness ==
    /\ call.op = "sanitizeBasename"
    /\ Len(returns) > 0
    /\ \E i \in 2..Len(call.basename) :
          /\ IsHighSurrogate(call.basename[i - 1])
          /\ IsLowSurrogate(call.basename[i])
    /\ \E i \in 1..Len(call.basename) : call.basename[i] = 233

\* the characters after the last dot of a name that has one
TrailingGroup(s) == SubSeq(s, LastIndex(s, CHAR_DOT, TRUE, 1, Len(s)) + 1, Len(s))

IsNumeric(s) == Len(s) > 0 /\ \A i \in 1..Len(s) : s[i] \in 48..57

\* C10 (as claimed): getFileExtension returns the empty string for every
\* name whose trailing dot-group is made of digits only.
C10_NumericGroupIsNoExtension ==
    (/\ call.op = "getFileExtension"
     /\ LastIndex(call.filename, CHAR_DOT, TRUE, 1, Len(call.filename)) > 0
     /\ IsNumeric(TrailingGroup(call.filename))) =>
        \A r \in Returned : r = <<>>

\* a name as the sanitizer returns it: only characters of [A-Za-z0-9_@.-]
IsSanitized(s) == \A i \in 1..Len(s) : s[i] \in SafeCharacters

\* index of the last dot of a name (0: it has none)
LastDot(s) == LastIndex(s, CHAR_DOT, TRUE, 1, Len(s))

\* 2 to 10 letters or digits
HasExtensionForm(g) ==
    /\ Len(g) >= 2
    /\ Len(g) <= 10
    /\ \A i \in 1..Len(g) : IsAlphaNumeric(g[i])

\* C11 (as claimed): for a sanitized name, getFileExtension returns the last
\* dot-group when it is a dot and 2 to 10 letters or digits; it returns the
\* empty string when the name has no dot or the group has another form.
C11_LastGroupOrEmpty ==
    (call.op = "getFileExtension" /\ IsSanitized(call.filename)) =>
        \A r \in Returned :
            IF /\ LastDot(call.filename) > 0
               /\ HasExtensionForm(TrailingGroup(call.filename))
            THEN r = <<CHAR_DOT>> \o TrailingGroup(call.filename)
            ELSE r = <<>>

\* C11 (amended): the same, except that a dot which is the first character
\* of the name starts no extension: for such a name (".zip") the result is
\* the empty string.
C11_LastGroupUnlessLeadingDot ==
    (call.op = "getFileExtension" /\ IsSanitized(call.filename)) =>
        \A r \in Returned :
            IF /\ LastDot(call.filename) > 1
               /\ HasExtensionForm(TrailingGroup(call.filename))
            THEN /\ r = <<CHAR_DOT>> \o TrailingGroup(call.filename)
                 /\ endsWith(call.filename, r)
            ELSE r = <<>>

C11_Witness ==
    /\ call.op = "getFileExtension"
    /\ IsSanitized(call.filename)
    /\ LastDot(call.filename) > 1
    /\ Len(TrailingGroup(call.filename)) = 10
    /\ \E r \in Returned : Len(r) = 11

\* the file name without its extension
WithoutExtension(filename, ext) ==
    IF Len(ext) > 0 /\ endsWith(filename, ext)
    THEN SubSeq(filename, 1, Len(filename) - Len(ext))
    ELSE filename

\* C12: getSuffix returns the candidate suffix when the file name without
\* its extension ends with it, and the empty string otherwise.
C12_SuffixAtEndOfStem ==
    call.op = "getSuffix" =>
        \A r \in Returned :
            r = IF endsWith(WithoutExtension(call.filename, call.ext), call.suffix)
                THEN call.suffix
                ELSE <<>>

C12_Witness ==
    /\ call.op = "getSuffix"
    /\ call.suffix = ORIGINAL_SUFFIX
    /\ call.ext = ExtPng
    /\ endsWith(call.filename, ORIGINAL_SUFFIX \o ExtPng)
    /\ ORIGINAL_SUFFIX \in Returned

\* the suffix marker of a call of getUniquePathname
MarkerOf(c) == IF c.suffix = undefined THEN ORIGINAL_SUFFIX ELSE c.suffix

\* the sanitized name of a call of getUniquePathname, without its extension
BaseOf(c) ==
    LET name == sanitizeBasename(LastComponent(c.name))
    IN  WithoutExtension(name, getFileExtension(name))

\* the first characters of a stem, as many as the room left allows
Kept(stem, room) ==
    SubSeq(stem, 1, IF room < 0 THEN 0 ELSE IF room < Len(stem) THEN room ELSE Len(stem))

\* base + "-" + hash + ext, or base-without-marker + "-" + hash + marker + ext
\* when the base ends with the marker; the part before the "-" is cut to the
\* room that is left
WithMarkerAfterHash(base, marker, hash, ext) ==
    IF endsWith(base, marker)
    THEN Kept(WithoutExtension(base, marker),
              MAX_FILENAME_BYTES - (1 + Len(hash) + Len(marker) + Len(ext)))
           \o <<DASH>> \o hash \o marker \o ext
    ELSE Kept(base, MAX_FILENAME_BYTES - (1 + Len(hash) + Len(ext)))
           \o <<DASH>> \o hash \o ext

\* C13: when the sanitized name without its extension ends with the marker,
\* the file name is stem-without-marker + "-" + hash + marker + extension;
\* otherwise it is stem + "-" + hash + extension, without a marker.  (The
\* stem is shortened when the name is too long.)  The values returned
\* earlier were the last one in an earlier state.
C13_MarkerAfterHash ==
    (call.op = "getUniquePathname" /\ Len(returns) > 0) =>
        LET name == sanitizeBasename(LastComponent(call.name))
            ext == getFileExtension(name)
        IN  FilenameOf(returns[Len(returns)])
              = WithMarkerAfterHash(WithoutExtension(name, ext), MarkerOf(call),
                                    generateSecureHash(draws[Len(draws)]), ext)

C13_Witness ==
    /\ call.op = "getUniquePathname"
    /\ call.suffix # undefined
    /\ endsWith(BaseOf(call), MarkerOf(call))
    /\ getFileExtension(sanitizeBasename(LastComponent(call.name))) = ExtPng
    /\ Len(returns) > 0

\* the value of a hexadecimal digit
HexValue(c) == IF c <= 57 THEN c - 48 ELSE c - 87

\* C14: every value of generateSecureHash is 16 characters long, each of
\* 0-9 or a-f, and they spell the 8 random bytes drawn by the call.
C14_SixteenHexDigits ==
    call.op = "generateSecureHash" =>
        \A k \in 1..Len(returns) :
            /\ Len(returns[k]) = 16
            /\ \A i \in 1..Len(returns[k]) :
                  returns[k][i] \in (48..57) \cup (97..102)
            /\ Len(draws[k]) = 8
            /\ \A j \in 1..Len(draws[k]) :
                  16 * HexValue(returns[k][2 * j - 1]) + HexValue(returns[k][2 * j])
                    = draws[k][j]

C14_Witness ==
    /\ call.op = "generateSecureHash"
    /\ Len(returns) > 0
    /\ \E j \in 1..Len(draws[1]) : draws[1][j] >= 160

\* C15: getUniquePathname uses the last component of file.name only; the
\* file name it generates has only characters of [A-Za-z0-9_@.-], and the
\* path returned is targetDir joined with that one file name.  (The values
\* returned earlier were the last one in an earlier state.)
C15_OnlyTheLastComponent ==
    (call.op = "getUniquePathname" /\ Len(returns) > 0) =>
        LET r == returns[Len(returns)]
            f == FilenameOf(r)
        IN  /\ LastComponent(call.name) # call.name =>
                  r = getUniquePathname(LastComponent(call.name), call.suffix,
                                        call.targetDir, draws[Len(draws)])
            /\ IsSanitized(f)
            /\ f \notin {<<>>, <<CHAR_DOT>>, <<CHAR_DOT, CHAR_DOT>>}
            /\ r = join(call.targetDir, f)

C15_Witness ==
    /\ call.op = "getUniquePathname"
    /\ \E i \in 1..Len(call.name) : call.name[i] = CHAR_FORWARD_SLASH
    /\ ~IsSanitized(LastComponent(call.name))
    /\ Len(returns) > 0

\* ------------------------------------------- claims on the numbering path
\* the caller was returned a path
Done(p) == frames[p].pc \in {"done", "saved"}

\* how many of the answers said "exists"
ExistsCount(answers) == Cardinality({j \in 1..Len(answers) : answers[j]})

\* "" for 0, "-k" for a counter k > 0
Counter(k) == IF k = 0 THEN <<>> ELSE <<DASH>> \o NumberToString(k)

\* name + counter + ext
Numbered(name, ext, k) == name \o Counter(k) \o (IF ext = null THEN <<>> ELSE ext)

HasLetter(g) == \E j \in 1..Len(g) : g[j] \in (65..90) \cup (97..122)

\* C17 (as claimed): getUniqueFileName puts the counter after an extension
\* made of digits only, which it takes as part of the name, and before an
\* extension that has a letter in it.
C17_CounterAfterNumericExtension ==
    \A p \in Callers :
        Done(p) =>
            LET f == frames[p]
                k == ExistsCount(f.answers)
                n == LastComponent(f.file)
                g == TrailingGroup(n)
            IN  /\ (LastDot(n) > 1 /\ IsNumeric(g)) =>
                      f.value = join(f.targetDir, sanitizeBasename(n) \o Counter(k))
                /\ (LastDot(n) > 1 /\ IsAlphaNumeric(g[1]) /\ HasLetter(g)
                                   /\ IsSanitized(g)) =>
                      f.value = join(f.targetDir,
                                     sanitizeBasename(SubSeq(n, 1, LastDot(n) - 1))
                                       \o Counter(k) \o <<CHAR_DOT>> \o g)

\* C19: with a backend that answers by looking at what is stored, two
\* callers are returned the same path only if the last check of each was
\* answered before the other wrote its file; and they can be (C19_Witness).
C19_SamePathOnlyBeforeTheWrite ==
    backend = "stored" =>
        \A p, q \in Callers :
            (p # q /\ Done(p) /\ Done(q) /\ frames[p].value = frames[q].value) =>
                q \notin frames[p].saved /\ p \notin frames[q].saved

C19_Witness ==
    /\ backend = "stored"
    /\ frames[1].file = frames[2].file
    /\ frames[1].pc = "done"
    /\ frames[2].pc = "done"
    /\ frames[1].value = frames[2].value

\* C20: a call of generateUnique to which every answer so far was "exists"
\* has returned nothing; its counter is the number of answers it has acted
\* on, and it has asked about one candidate more, the one with this counter.
C20_NoPathWhileEverythingExists ==
    \A p \in Callers :
        LET f == frames[p]
        IN  (\A j \in 1..Len(f.answers) : f.answers[j]) =>
                /\ ~Done(p)
                /\ f.value = undefined
                /\ f.pc # "idle" =>
                      /\ Len(f.checked) = f.i + 1
                      /\ f.checked = [j \in 1..(f.i + 1) |-> Numbered(f.name, f.ext, j - 1)]
                      /\ Len(f.answers) = f.i + (IF f.pc = "then" THEN 1 ELSE 0)

C20_Witness ==
    /\ backend = "always"
    /\ \E p \in Callers : Len(frames[p].answers) >= 3

\* C18: whatever the other caller does in between, a call of
\* getUniquePathname returns what the call alone returns for its name, suffix
\* and target directory and the random bytes it drew, and every constant it
\* has bound is the one the call alone binds.
C18_CallsDoNotInterfere ==
    \A p \in Callers :
        LET f == frames[p]
            name == sanitizeBasename(basename(f.fileName, undefined))
        IN  /\ f.pc \notin {"basename"} => f.basename = name
            /\ f.pc \notin {"basename", "ext"} => f.ext = getFileExtension(name)
            /\ f.pc = "done" =>
                  f.value = getUniquePathname(f.fileName, f.suffixArgument,
                                              f.targetDir, f.randomBytes)

C18_Witness ==
    /\ frames[1].pc = "done"
    /\ frames[2].pc = "done"
    /\ frames[1].fileName # frames[2].fileName
    /\ frames[1].randomBytes = frames[2].randomBytes
    /\ frames[1].value # frames[2].value

\* the checks of a call so far: one at a time, about the candidates with the
\* counters 0, 1, 2, ... in this order, none twice and none skipped
OneCheckAtATime(p) ==
    LET f == frames[p]
    IN  /\ Len(f.checked) = Len(f.answers) + (IF f.pc = "exists" THEN 1 ELSE 0)
        /\ f.checked = [j \in 1..Len(f.checked) |-> Numbered(f.name, f.ext, j - 1)]
        /\ \A j \in 1..Len(f.answers) : j < Len(f.answers) => f.answers[j]

\* the call has completed at the first answer "does not exist", the answer
\* to check k + 1, and has returned the candidate of that check
CompletedAtFirstFree(p) ==
    LET f == frames[p]
        k == ExistsCount(f.answers)
    IN  /\ Done(p)
        /\ Len(f.checked) = k + 1
        /\ Len(f.answers) = k + 1
        /\ ~f.answers[k + 1]
        /\ f.value = join(f.targetDir, f.checked[k + 1])

\* every candidate up to the largest counter followed was said to exist
EveryCandidateExists(p) ==
    /\ Len(frames[p].answers) = MaxCounter + 1
    /\ \A j \in 1..Len(frames[p].answers) : frames[p].answers[j]

C22_ReturnedNameIsSanitized ==
    \A p \in Callers :
        Done(p) => IsSanitized(LastComponent(frames[p].value))

====
